---- MODULE Spec2Model ----
(***************************************************************************)
(* A model of the snowygo analyzer (src/analyzer.go).                      *)
(*                                                                         *)
(* Strings the code takes apart (package paths, import path literals,      *)
(* function, type and variable names) are sequences of symbols: "/", the   *)
(* double quote and "." are symbols of their own, every other symbol is a  *)
(* run of characters the code never looks inside ("lib", "Request",        *)
(* "User").  strings.Split, HasPrefix, HasSuffix, TrimPrefix and           *)
(* strconv.Unquote are computed on these sequences.  Strings the code only *)
(* compares as a whole (parameter names, result types, callee names) are   *)
(* TLA+ strings.                                                           *)
(***************************************************************************)
EXTENDS Naturals, Sequences, FiniteSets, Bags

VARIABLES
    pkg,              \* the analysed package: [path, files] (pass.Pkg.Path(), pass.Files)
    fi,               \* index of the file being inspected (for _, f := range pass.Files)
    walk,             \* the callbacks ast.Inspect has still to make on that file
    a2b,              \* map[string]*Pair
    errorStructMap,   \* map[string]Reporter
    errorCheckerMap,  \* map[string]Reporter
    diags,            \* bag of the diagnostics handed to pass.Reportf
    pc,               \* "inspect", "errors", "pairs", "done", "panic"; "split", "split_done"
    path,             \* argument of a direct call of splitPackagePath
    ret               \* what that call returned

vars == <<pkg, fi, walk, a2b, errorStructMap, errorCheckerMap, diags, pc, path, ret>>

-----------------------------------------------------------------------------
(* Bounds of the model.                                                    *)

MaxPathLen == 5      \* symbols of a path handed to splitPackagePath directly
MaxImports == 2      \* imports of a file
MaxFiles == 2        \* files of a package
MaxDecls == 2        \* declarations of a package, over all of its files
MaxFields == 2       \* fields of a parameter list
MaxStmts == 2        \* statements of a function body

-----------------------------------------------------------------------------
(* Strings.                                                                *)

Str(w) == <<w>>

Slash == "/"
Quote == "\""

HasPrefix(s, p) == Len(s) >= Len(p) /\ SubSeq(s, 1, Len(p)) = p

HasSuffix(s, p) == Len(s) >= Len(p) /\ SubSeq(s, Len(s) - Len(p) + 1, Len(s)) = p

TrimPrefix(s, p) == IF HasPrefix(s, p) THEN SubSeq(s, Len(p) + 1, Len(s)) ELSE s

\* strings.Split(s, "/"): cut at every separator; a string without one is its
\* own single part, the empty string included.
RECURSIVE Split(_)
Split(s) ==
    IF \E i \in 1..Len(s) : s[i] = Slash
    THEN LET i == CHOOSE k \in 1..Len(s) :
                      s[k] = Slash /\ \A j \in 1..(k - 1) : s[j] # Slash
         IN  <<SubSeq(s, 1, i - 1)>> \o Split(SubSeq(s, i + 1, Len(s)))
    ELSE <<s>>

\* strconv.Unquote on an interpreted string literal: the text between the
\* quotes, or an error when the quotes are missing.
Unquote(s) ==
    IF Len(s) >= 2 /\ s[1] = Quote /\ s[Len(s)] = Quote
    THEN [ok |-> TRUE, val |-> SubSeq(s, 2, Len(s) - 1)]
    ELSE [ok |-> FALSE, val |-> <<>>]

\* ast.Ident.IsExported: the name starts with an upper-case letter.  The
\* symbols of the model that start with one:
UpperSymbols ==
    {"Request", "Reply", "Send", "Receive", "Publish", "Subscribe", "Set", "Get",
     "New", "Is", "Error", "User", "Order", "Parse", "Cache", "T"}

IsExported(name) == name # <<>> /\ name[1] \in UpperSymbols

-----------------------------------------------------------------------------
(* The path classifier.                                                    *)

LibraryGroup == "lib"
InternalGroup == "internal"
CommandGroup == "cmd"
ModelGroup == "model"
GenGroup == "gen"

\* splitPackagePath without its two-segment case
splitPackagePath_Shifted(p) ==
    LET parts == Split(p)
    IN  IF Len(parts) < 2
        THEN [group |-> <<>>, parts |-> parts]
        ELSE [group |-> parts[2], parts |-> SubSeq(parts, 3, Len(parts))]

\* parts := strings.Split(path, "/") and the three returns
splitPackagePath(p) ==
    LET parts == Split(p)
    IN  IF Len(parts) < 2
        THEN [group |-> <<>>, parts |-> parts]
        ELSE IF Len(parts) = 2
        THEN [group |-> parts[1], parts |-> SubSeq(parts, 2, Len(parts))]
        ELSE [group |-> parts[2], parts |-> SubSeq(parts, 3, Len(parts))]

-----------------------------------------------------------------------------
(* Syntax trees.  A node is a record of its kind, the attributes the       *)
(* callback reads, and its children in the order ast.Walk visits them.     *)
(* A node's position is the index of its file followed by its path in the  *)
(* tree (the child indices from the root).  Every node ast.Walk visits is  *)
(* a node of the tree, the ones the callback matches no case on included   *)
(* (identifiers, fields, field lists, literals): the callback is called on *)
(* each of them and on the nil that ends its children.  The declarations   *)
(* built here are the ones whose parameters and variables have the type T, *)
(* whose results are unnamed, whose call arguments are the identifier a    *)
(* and whose if conditions are an identifier.                              *)

Node(kind, tok, name, names, params, results, flag, nargs, kids) ==
    [kind |-> kind, tok |-> tok, name |-> name, names |-> names, params |-> params,
     results |-> results, flag |-> flag, nargs |-> nargs, kids |-> kids]

Leaf(kind) == Node(kind, "", <<>>, <<>>, <<>>, <<>>, FALSE, 0, <<>>)
Inner(kind, kids) == Node(kind, "", <<>>, <<>>, <<>>, <<>>, FALSE, 0, kids)

Ident(name) == Node("Ident", "", name, <<>>, <<>>, <<>>, FALSE, 0, <<>>)
\* name: the literal as written, quotes included (imp.Path.Value)
ImportSpec(value) == Node("ImportSpec", "", value, <<>>, <<>>, <<>>, FALSE, 0, <<Leaf("BasicLit")>>)
\* names: valueSpec.Names; the children are the names and the type (var n T)
ValueSpec(names) ==
    Node("ValueSpec", "", <<>>, names, <<>>, <<>>, FALSE, 0,
         [k \in DOMAIN names |-> Ident(names[k])] \o <<Ident(Str("T"))>>)
\* flag: typeSpec.Type is an *ast.StructType
TypeSpec(name, isStruct) ==
    Node("TypeSpec", "", name, <<>>, <<>>, <<>>, isStruct, 0,
         <<Ident(name), IF isStruct THEN Inner("StructType", <<Leaf("FieldList")>>) ELSE Leaf("Ident")>>)
GenDecl(tok, specs) == Node("GenDecl", tok, <<>>, <<>>, <<>>, <<>>, FALSE, 0, specs)
BlockStmt(list) == Inner("BlockStmt", list)
\* An *ast.Field: its names, then its type
Field(names, type) ==
    Inner("Field", [k \in DOMAIN names |-> Ident(Str(names[k]))] \o <<Ident(Str(type))>>)
FieldList(fields) == Inner("FieldList", fields)
\* node.Type: Params is a field list even when it is empty, Results is nil
\* when the function returns nothing
FuncType(params, results) ==
    Inner("FuncType",
          <<FieldList([k \in DOMAIN params |-> Field(params[k], "T")])>>
          \o (IF results = <<>> THEN <<>>
              ELSE <<FieldList([k \in DOMAIN results |-> Field(<<>>, results[k])])>>))
\* params: the names of each field of node.Type.Params.List; results: the type
\* of each field of node.Type.Results.List; flag: node.Body is not nil
FuncDecl(name, params, results, hasBody, body) ==
    Node("FuncDecl", "", name, <<>>, params, results, hasBody, 0,
         <<Ident(name), FuncType(params, results)>>
         \o (IF hasBody THEN <<BlockStmt(body)>> ELSE <<>>))
\* name: the called identifier; nargs: len(node.Args); the children are the
\* called identifier and the arguments
CallExpr(fun, nargs) ==
    Node("CallExpr", "", Str(fun), <<>>, <<>>, <<>>, FALSE, nargs,
         <<Ident(Str(fun))>> \o [k \in 1..nargs |-> Ident(Str("a"))])
ExprStmt(call) == Inner("ExprStmt", <<call>>)
GoStmt(call) == Inner("GoStmt", <<call>>)
\* results: the returned identifiers
ReturnStmt(results) ==
    Node("ReturnStmt", "", <<>>, <<>>, <<>>, results, FALSE, 0,
         [k \in DOMAIN results |-> Ident(Str(results[k]))])
ForStmt(body) == Inner("ForStmt", <<BlockStmt(body)>>)
\* flag: stmt.Else is not nil; els is then the else branch
IfStmt(body, hasElse, els) ==
    Node("IfStmt", "", <<>>, <<>>, <<>>, <<>>, hasElse, 0,
         <<Leaf("Ident"), BlockStmt(body)>> \o (IF hasElse THEN <<els>> ELSE <<>>))
\* name: f.Name.Name, the package clause
File(name, imports, decls) ==
    Node("File", "", name, <<>>, <<>>, <<>>, FALSE, 0,
         <<Ident(name)>>
         \o (IF imports = <<>> THEN <<>>
             ELSE <<GenDecl("import", [i \in DOMAIN imports |-> ImportSpec(imports[i])])>>)
         \o decls)

RECURSIVE Flatten(_)
Flatten(ss) == IF ss = <<>> THEN <<>> ELSE Head(ss) \o Flatten(Tail(ss))

RECURSIVE NodeAt(_, _)
NodeAt(n, p) == IF p = <<>> THEN n ELSE NodeAt(n.kids[Head(p)], Tail(p))

NilEvent == [nil |-> TRUE, at |-> <<>>]

\* ast.Inspect with a callback that always returns true: the callback gets
\* the node, then the walk of every child, then nil.
RECURSIVE Events(_, _)
Events(n, p) ==
    <<[nil |-> FALSE, at |-> p]>>
    \o Flatten([k \in DOMAIN n.kids |-> Events(n.kids[k], p \o <<k>>)])
    \o <<NilEvent>>

\* f.Imports: the import specs of the file, each with its place in the tree
Imports(f) ==
    Flatten([k \in DOMAIN f.kids |->
        IF f.kids[k].kind = "GenDecl" /\ f.kids[k].tok = "import"
        THEN [j \in DOMAIN f.kids[k].kids |->
                 [at |-> <<k, j>>, value |-> f.kids[k].kids[j].name]]
        ELSE <<>>])

Pos(i, p) == <<i>> \o p

Diag(pos, fmt, args) == [pos |-> pos, fmt |-> fmt, args |-> args]

Range(s) == {s[i] : i \in DOMAIN s}

BagOfSeq(s) == [d \in Range(s) |-> Cardinality({i \in DOMAIN s : s[i] = d})]

MapPut(m, k, v) == [x \in DOMAIN m \cup {k} |-> IF x = k THEN v ELSE m[x]]

-----------------------------------------------------------------------------
(* The callback of ast.Inspect, piece by piece.  Each piece yields the     *)
(* diagnostics it reports, in order, and the registries as it leaves them. *)

bannedPackageNames ==
    [k \in {Str("util")} |-> "use a more descriptive package name"]

bannedImportPaths ==
    [k \in {<<"github.com", "/", "pkg", "/", "errors">>, <<"io", "/", "ioutil">>} |->
        IF k = <<"io", "/", "ioutil">> THEN "use os or package io instead"
        ELSE "use fmt.Errorf and errors instead"]

\* if len(parts) > 0 { if desc, ok := bannedPackageNames[parts[len(parts)-1]]; ok
BannedName(parts) == Len(parts) > 0 /\ parts[Len(parts)] \in DOMAIN bannedPackageNames

\* The switch on group and impGroup: the message reported for the import.
LayerMessages(group, impGroup) ==
    LET internal == <<"must not import from internal package">>
        command  == <<"must not import from command package">>
        library  == <<"must not import from library package">>
    IN  CASE group = Str(LibraryGroup) ->
               (CASE impGroup = Str(InternalGroup) -> internal
                  [] impGroup = Str(CommandGroup) -> command
                  [] OTHER -> <<>>)
          [] group = Str(InternalGroup) ->
               (CASE impGroup = Str(CommandGroup) -> command
                  [] OTHER -> <<>>)
          [] group \in {Str(ModelGroup), Str(GenGroup)} ->
               (CASE impGroup = Str(CommandGroup) -> command
                  [] impGroup = Str(InternalGroup) -> internal
                  [] impGroup = Str(LibraryGroup) -> library
                  [] OTHER -> <<>>)
          [] OTHER -> <<>>

SameDepthMessage == "must not import from the same group, same depth"

\* The body of `for _, imp := range f.Imports` for one import.
ImportDiags(i, group, parts, imp) ==
    LET sp == splitPackagePath(imp.value)
        lm == LayerMessages(group, sp.group)
    IN  (IF group = sp.group /\ Len(parts) = Len(sp.parts)
         THEN <<Diag(Pos(i, imp.at), SameDepthMessage, <<>>)>>
         ELSE <<>>)
        \o [k \in DOMAIN lm |-> Diag(Pos(i, imp.at), lm[k], <<>>)]

\* The loop over f.Imports, run by every call of the callback.
LayeringDiags(i, f, group, parts) ==
    LET imps == Imports(f)
    IN  Flatten([k \in DOMAIN imps |-> ImportDiags(i, group, parts, imps[k])])

\* case *ast.GoStmt
GoStmtDiags(pos) ==
    <<Diag(pos, "should not use raw goroutine, use goroutine pool instead", <<>>)>>

\* case token.VAR
VarDiags(i, p, node) ==
    Flatten([k \in DOMAIN node.kids |->
        LET spec == node.kids[k]
        IN  IF spec.kind = "ValueSpec" /\ Len(spec.names) > 0 /\ IsExported(spec.names[1])
            THEN <<Diag(Pos(i, p \o <<k>>),
                        "global variable or local temparary value %s should not be exported or pascal case",
                        <<spec.names[1]>>)>>
            ELSE <<>>])

\* case token.TYPE: the specs in order, a later one overwriting an earlier one
RECURSIVE RecordStructs(_, _, _, _, _)
RecordStructs(i, p, node, k, esm) ==
    IF k > Len(node.kids) THEN esm
    ELSE LET spec == node.kids[k]
             hit  == /\ spec.kind = "TypeSpec"
                     /\ spec.flag
                     /\ IsExported(spec.name)
                     /\ HasSuffix(spec.name, Str("Error"))
         IN  RecordStructs(i, p, node, k + 1,
                           IF hit THEN MapPut(esm, spec.name, Pos(i, p \o <<k>>)) ELSE esm)

\* case *ast.ImportSpec
ImportSpecDiags(pos, node) ==
    LET u == Unquote(node.name)
    IN  IF u.ok /\ u.val \in DOMAIN bannedImportPaths
        THEN <<Diag(pos, "should not use %s, %s", <<u.val, Str(bannedImportPaths[u.val])>>)>>
        ELSE <<>>

\* strings.HasPrefix(name, "Is") && strings.HasSuffix(name, "Error")
IsErrorChecker(name) == HasPrefix(name, Str("Is")) /\ HasSuffix(name, Str("Error"))

\* if _, ok := errorCheckerMap[node.Name.Name]; !ok { errorCheckerMap[...] = ... }
RecordChecker(ecm, name, pos) ==
    IF name \in DOMAIN ecm THEN ecm ELSE MapPut(ecm, name, pos)

\* The fields whose first name is ctx: len(param.Names) >= 1 && param.Names[0].Name == "ctx"
CtxFields(params) == {k \in DOMAIN params : Len(params[k]) >= 1 /\ params[k][1] = "ctx"}

\* case strings.HasPrefix(node.Name.Name, "New")
MissingCtxDiags(pos, params) ==
    IF CtxFields(params) = {}
    THEN <<Diag(pos, "missing context.Context parameter", <<>>)>>
    ELSE <<>>

\* The chain of strings.TrimPrefix calls, in the order of the source.
TrimVerbs(name) ==
    LET t1 == TrimPrefix(name, Str("Request"))
        t2 == TrimPrefix(t1, Str("Reply"))
        t3 == TrimPrefix(t2, Str("Send"))
        t4 == TrimPrefix(t3, Str("Receive"))
        t5 == TrimPrefix(t4, Str("Publish"))
    IN  TrimPrefix(t5, Str("Subscribe"))

\* f.Name.Name + "." + trimmedName
PairKey(f, name) == f.name \o Str(".") \o TrimVerbs(name)

EmptyPair == [First |-> <<>>, Second |-> <<>>]

PairElement(verb, pos) == [Name |-> verb, pos |-> pos]

\* The switch that fills one half of the pair from the function's own prefix.
StoreHalf(p, name, pos) ==
    CASE HasPrefix(name, Str("Request")) -> [p EXCEPT !.First = <<PairElement("Request", pos)>>]
      [] HasPrefix(name, Str("Reply")) -> [p EXCEPT !.Second = <<PairElement("Reply", pos)>>]
      [] HasPrefix(name, Str("Send")) -> [p EXCEPT !.First = <<PairElement("Send", pos)>>]
      [] HasPrefix(name, Str("Receive")) -> [p EXCEPT !.Second = <<PairElement("Receive", pos)>>]
      [] HasPrefix(name, Str("Publish")) -> [p EXCEPT !.First = <<PairElement("Publish", pos)>>]
      [] HasPrefix(name, Str("Subscribe")) -> [p EXCEPT !.Second = <<PairElement("Subscribe", pos)>>]
      [] OTHER -> p

\* default: of the switch on the function's name
RecordPair(m, f, name, pos) ==
    LET key == PairKey(f, name)
        p   == IF key \in DOMAIN m THEN m[key] ELSE EmptyPair
    IN  MapPut(m, key, StoreHalf(p, name, pos))

\* if hasCtx && !isCtxFirst: the loop stops at the first field whose first
\* name is ctx, and isCtxFirst is set when that field is field 0.
CtxFirstDiags(pos, params) ==
    LET cf == CtxFields(params)
    IN  IF cf # {} /\ (CHOOSE k \in cf : \A j \in cf : k <= j) # 1
        THEN <<Diag(pos, "context.Context should be the first parameter", <<>>)>>
        ELSE <<>>

\* if hasErr && !isErrLast
ErrLastDiags(pos, results) ==
    IF (\E k \in DOMAIN results : results[k] = "error") /\ results[Len(results)] # "error"
    THEN <<Diag(pos, "error should be the last return value", <<>>)>>
    ELSE <<>>

ElseMessage ==
    "if statement should not have an else branch, use early return or switch statement instead"

\* node.Body: the block among the declaration's children
BodyIndex(node) == CHOOSE k \in DOMAIN node.kids : node.kids[k].kind = "BlockStmt"

\* The loop over node.Body.List without its test of stmt.Else
ElseDiags_NoCheck(i, p, node) ==
    LET b    == BodyIndex(node)
        list == node.kids[b].kids
    IN  Flatten([k \in DOMAIN list |->
            IF list[k].kind = "IfStmt"
            THEN <<Diag(Pos(i, p \o <<b, k>>), ElseMessage, <<>>)>>
            ELSE <<>>])

\* for _, stmt := range node.Body.List, for a declaration that has a body
ElseDiags(i, p, node) ==
    LET b    == BodyIndex(node)
        list == node.kids[b].kids
    IN  Flatten([k \in DOMAIN list |->
            IF list[k].kind = "IfStmt" /\ list[k].flag
            THEN <<Diag(Pos(i, p \o <<b, k>>), ElseMessage, <<>>)>>
            ELSE <<>>])

\* case *ast.ReturnStmt: one report per returned identifier named err
ReturnDiags(pos, node) ==
    Flatten([k \in DOMAIN node.results |->
        IF node.results[k] = "err"
        THEN <<Diag(pos, "should not return error, use fmt.Errorf instead", <<>>)>>
        ELSE <<>>])

\* case *ast.CallExpr
CallDiags(pos, node) ==
    IF node.name = Str("make") /\ node.nargs < 2
    THEN <<Diag(pos, "make function should be called with 2 arguments", <<>>)>>
    ELSE <<>>

Result(d, m, esm, ecm, panic) ==
    [diags |-> d, a2b |-> m, esm |-> esm, ecm |-> ecm, panic |-> panic]

\* case *ast.FuncDecl.  A declaration without a body has node.Body = nil, and
\* len(node.Body.List) dereferences it: the callback panics there, after the
\* reports and registry updates made before that line.
FuncDeclCase(i, f, p, node, m, esm, ecm) ==
    LET pos    == Pos(i, p)
        isChk  == IsErrorChecker(node.name)
        isNew  == ~isChk /\ HasPrefix(node.name, Str("New"))
        ecm2   == IF isChk THEN RecordChecker(ecm, node.name, pos) ELSE ecm
        m2     == IF ~isChk /\ ~isNew THEN RecordPair(m, f, node.name, pos) ELSE m
        d1     == (IF isNew THEN MissingCtxDiags(pos, node.params) ELSE <<>>)
                  \o CtxFirstDiags(pos, node.params)
                  \o ErrLastDiags(pos, node.results)
    IN  IF ~node.flag
        THEN Result(d1, m2, esm, ecm2, TRUE)
        ELSE Result(d1 \o ElseDiags(i, p, node), m2, esm, ecm2, FALSE)

\* The switch on the node's type; a node of any other type, and nil, match
\* no case.
TypeSwitch(i, f, ev, m, esm, ecm) ==
    IF ev.nil THEN Result(<<>>, m, esm, ecm, FALSE)
    ELSE LET node == NodeAt(f, ev.at)
             pos  == Pos(i, ev.at)
         IN  CASE node.kind = "GoStmt" -> Result(GoStmtDiags(pos), m, esm, ecm, FALSE)
               [] node.kind = "GenDecl" /\ node.tok = "var" ->
                      Result(VarDiags(i, ev.at, node), m, esm, ecm, FALSE)
               [] node.kind = "GenDecl" /\ node.tok = "type" ->
                      Result(<<>>, m, RecordStructs(i, ev.at, node, 1, esm), ecm, FALSE)
               [] node.kind = "ImportSpec" ->
                      Result(ImportSpecDiags(pos, node), m, esm, ecm, FALSE)
               [] node.kind = "FuncDecl" -> FuncDeclCase(i, f, ev.at, node, m, esm, ecm)
               [] node.kind = "ReturnStmt" -> Result(ReturnDiags(pos, node), m, esm, ecm, FALSE)
               [] node.kind = "CallExpr" -> Result(CallDiags(pos, node), m, esm, ecm, FALSE)
               [] OTHER -> Result(<<>>, m, esm, ecm, FALSE)

\* One call of the callback, on a node or on nil.  With a banned package
\* name the report is made at node.Pos(), which panics when node is nil.
Callback(i, f, ev, m, esm, ecm) ==
    LET sp     == splitPackagePath(pkg.path)
        banned == BannedName(sp.parts)
        last   == sp.parts[Len(sp.parts)]
    IN  IF banned /\ ev.nil
        THEN Result(<<>>, m, esm, ecm, TRUE)
        ELSE LET d0 == IF banned
                       THEN <<Diag(Pos(i, ev.at), "should not use %s to package name, %s",
                                   <<last, Str(bannedPackageNames[last])>>)>>
                       ELSE <<>>
                 d1 == LayeringDiags(i, f, sp.group, sp.parts)
                 r  == TypeSwitch(i, f, ev, m, esm, ecm)
             IN  [r EXCEPT !.diags = d0 \o d1 \o r.diags]

-----------------------------------------------------------------------------
(* Reconciliation, after every file has been inspected.                    *)

MissingFunction == "missing %s function"
MissingStruct == "missing %s struct"

\* c := e, the prefix forgotten
CheckerName_Bare(e) == e

\* c := "Is" + e
CheckerName(e) == Str("Is") \o e

\* for e := range errorStructMap: the reports of the loop
StructDiags(esm, ecm) ==
    {Diag(esm[e], MissingFunction, <<CheckerName(e)>>) :
        e \in {x \in DOMAIN esm : CheckerName(x) \notin DOMAIN ecm}}

\* ... and errorCheckerMap after its delete(errorCheckerMap, c) calls
RemainingCheckers(esm, ecm) ==
    [c \in DOMAIN ecm \ {CheckerName(e) : e \in DOMAIN esm} |-> ecm[c]]

\* for c := range errorCheckerMap: the reports of the loop
CheckerDiags(esm, ecm) ==
    {Diag(ecm[c], MissingStruct, <<TrimPrefix(c, Str("Is"))>>) :
        c \in {x \in DOMAIN ecm : TrimPrefix(x, Str("Is")) \notin DOMAIN esm}}

\* The switch on pair.First.Name without its case "Send"
OppositeOfFirst_NoSend(verb) ==
    CASE verb = "Request" -> "Reply"
      [] verb = "Publish" -> "Subscribe"
      [] verb = "Set" -> "Get"
      [] OTHER -> "unknown"

\* switch pair.First.Name
OppositeOfFirst(verb) ==
    CASE verb = "Request" -> "Reply"
      [] verb = "Send" -> "Receive"
      [] verb = "Publish" -> "Subscribe"
      [] verb = "Set" -> "Get"
      [] OTHER -> "unknown"

\* switch pair.Second.Name
OppositeOfSecond(verb) ==
    CASE verb = "Reply" -> "Request"
      [] verb = "Receive" -> "Send"
      [] verb = "Subscribe" -> "Publish"
      [] verb = "Get" -> "Set"
      [] OTHER -> "unknown"

\* The body of `for _, pair := range a2b` for one pair.
PairDiags(p) ==
    IF p.First # <<>> /\ p.Second = <<>>
    THEN {Diag(p.First[1].pos, MissingFunction, <<Str(OppositeOfFirst(p.First[1].Name))>>)}
    ELSE IF p.First = <<>> /\ p.Second # <<>>
    THEN {Diag(p.Second[1].pos, MissingFunction, <<Str(OppositeOfSecond(p.Second[1].Name))>>)}
    ELSE {}

\* The reports of a loop over a map, whatever order the map is ranged in:
\* r[k] holds the reports of the loop's body for key k.
BagOfReports(r) ==
    LET all == UNION {r[k] : k \in DOMAIN r}
    IN  [d \in all |-> Cardinality({k \in DOMAIN r : d \in r[k]})]

-----------------------------------------------------------------------------
(* The run: inspect every file, then reconcile the two registries.         *)

\* One call of the callback that ast.Inspect makes on the current file.
Visit ==
    /\ pc = "inspect"
    /\ LET r    == Callback(fi, pkg.files[fi], Head(walk), a2b, errorStructMap, errorCheckerMap)
           last == Len(walk) = 1
       IN  /\ diags' = diags (+) BagOfSeq(r.diags)
           /\ a2b' = r.a2b
           /\ errorStructMap' = r.esm
           /\ errorCheckerMap' = r.ecm
           /\ pc' = IF r.panic THEN "panic"
                    ELSE IF last /\ fi = Len(pkg.files) THEN "errors"
                    ELSE "inspect"
           /\ walk' = IF r.panic THEN walk
                      ELSE IF ~last THEN Tail(walk)
                      ELSE IF fi < Len(pkg.files) THEN Events(pkg.files[fi + 1], <<>>)
                      ELSE <<>>
           /\ fi' = IF ~r.panic /\ last /\ fi < Len(pkg.files) THEN fi + 1 ELSE fi
    /\ UNCHANGED <<pkg, path, ret>>

\* The two loops over errorStructMap and errorCheckerMap.
ReconcileErrors ==
    /\ pc = "errors"
    /\ LET rest == RemainingCheckers(errorStructMap, errorCheckerMap)
       IN  /\ diags' = diags (+) SetToBag(StructDiags(errorStructMap, errorCheckerMap))
                             (+) SetToBag(CheckerDiags(errorStructMap, rest))
           /\ errorCheckerMap' = rest
    /\ pc' = "pairs"
    /\ UNCHANGED <<pkg, fi, walk, a2b, errorStructMap, path, ret>>

\* The loop over a2b, and the return.
ReconcilePairs ==
    /\ pc = "pairs"
    /\ diags' = diags (+) BagOfReports([k \in DOMAIN a2b |-> PairDiags(a2b[k])])
    /\ pc' = "done"
    /\ UNCHANGED <<pkg, fi, walk, a2b, errorStructMap, errorCheckerMap, path, ret>>

Next == Visit \/ ReconcileErrors \/ ReconcilePairs

EmptyMap == [k \in {} |-> <<>>]

\* The state when the returned closure starts on a package.
InitRun(packages) ==
    /\ pkg \in packages
    /\ fi = 1
    /\ walk = Events(pkg.files[1], <<>>)
    /\ a2b = EmptyMap
    /\ errorStructMap = EmptyMap
    /\ errorCheckerMap = EmptyMap
    /\ diags = EmptyBag
    /\ pc = "inspect"
    /\ path = <<>>
    /\ ret = [group |-> <<>>, parts |-> <<>>]

-----------------------------------------------------------------------------
(* A direct call of splitPackagePath on any short string.                  *)

PathSymbols == {Slash, "lib", "x"}

RECURSIVE SeqsUpTo(_, _)
SeqsUpTo(S, n) ==
    IF n = 0 THEN {<<>>}
    ELSE LET shorter == SeqsUpTo(S, n - 1)
         IN  shorter \cup {Append(s, x) : s \in shorter, x \in S}

InitSplit ==
    /\ path \in SeqsUpTo(PathSymbols, MaxPathLen)
    /\ ret = [group |-> <<>>, parts |-> <<>>]
    /\ pc = "split"
    /\ pkg = [path |-> <<>>, files |-> <<>>]
    /\ fi = 1
    /\ walk = <<>>
    /\ a2b = EmptyMap
    /\ errorStructMap = EmptyMap
    /\ errorCheckerMap = EmptyMap
    /\ diags = EmptyBag

CallSplit ==
    /\ pc = "split"
    /\ ret' = splitPackagePath(path)
    /\ pc' = "split_done"
    /\ UNCHANGED <<pkg, fi, walk, a2b, errorStructMap, errorCheckerMap, diags, path>>

SpecSplit == InitSplit /\ [][CallSplit]_vars

-----------------------------------------------------------------------------
(* The packages the runs are checked on.                                   *)

RECURSIVE Join(_)
Join(segs) ==
    IF segs = <<>> THEN <<>>
    ELSE IF Len(segs) = 1 THEN Head(segs)
    ELSE Head(segs) \o Str(Slash) \o Join(Tail(segs))

\* An import path as the parser keeps it in imp.Path.Value: a quoted literal.
Literal(p) == Str(Quote) \o p \o Str(Quote)

\* The package clause of the files of the package at path P: its last segment
PackageName(P) == Split(P)[Len(Split(P))]

\* Every way to spread at most nd declarations, in order, over nf files.
RECURSIVE DeclLists(_, _, _)
DeclLists(D, nf, nd) ==
    IF nf = 0 THEN {<<>>}
    ELSE UNION {{<<dl>> \o rest : rest \in DeclLists(D, nf - 1, nd - Len(dl))} :
                    dl \in SeqsUpTo(D, nd)}

\* The packages of at most MaxFiles files that declare at most MaxDecls of the
\* declarations D, none of them twice.
PackagesOf(P, D) ==
    {[path |-> P, files |-> [i \in DOMAIN dls |-> File(PackageName(P), <<>>, dls[i])]] :
        dls \in {x \in UNION {DeclLists(D, nf, MaxDecls) : nf \in 1..MaxFiles} :
                    Cardinality(Range(Flatten(x))) = Len(Flatten(x))}}

PlainPath == Join(<<Str("x"), Str("lib"), Str("cache")>>)

Func(name) == FuncDecl(name, <<>>, <<>>, TRUE, <<>>)
StructDecl(name) == GenDecl("type", <<TypeSpec(name, TRUE)>>)

ParseError == <<"Parse", "Error">>
CacheError == <<"Cache", "Error">>
IsParseError == <<"Is", "Parse", "Error">>
IsCacheError == <<"Is", "Cache", "Error">>

\* Error types and checkers, matched and unmatched.
ErrorDecls ==
    {StructDecl(ParseError), Func(IsParseError), Func(IsCacheError),
     GenDecl("type", <<TypeSpec(CacheError, FALSE)>>)}

InitErrors == InitRun(PackagesOf(PlainPath, ErrorDecls))
SpecErrors == InitErrors /\ [][Next]_vars

\* Verb-prefixed functions over two base names, Set and Get among them.
PairDecls ==
    {Func(<<"Request", "User">>), Func(<<"Reply", "User">>), Func(<<"Receive", "User">>),
     Func(<<"Send", "Order">>), Func(<<"Set", "User">>), Func(<<"Get", "Order">>),
     Func(<<"Publish", "Order">>)}

InitPairs == InitRun(PackagesOf(PlainPath, PairDecls))
SpecPairs == InitPairs /\ [][Next]_vars

\* Package paths and import paths of one, two and three segments, with the
\* group word in the place the classifier reads and in the other places.
PathsOver(words, w) ==
    UNION {{Str(g), Join(<<Str(g), Str(w)>>), Join(<<Str(w), Str(g), Str(w)>>)} :
               g \in words}

LayerPaths ==
    PathsOver({LibraryGroup, InternalGroup, CommandGroup, ModelGroup, GenGroup, "x"}, "x")

ImportLiterals ==
    {Literal(p) : p \in PathsOver({LibraryGroup, InternalGroup, CommandGroup, "y"}, "y")
                        \cup {<<"io", "/", "ioutil">>}}

LayerPackages ==
    {[path |-> P, files |-> <<File(PackageName(P), imps, <<>>)>>] :
        P \in LayerPaths, imps \in SeqsUpTo(ImportLiterals, MaxImports)}

InitLayering == InitRun(LayerPackages)
SpecLayering == InitLayering /\ [][Next]_vars

\* One function declaration in every shape of name, parameter list and
\* result list, with and without a body.
NamedFields == {<<"a">>, <<"ctx">>, <<"a", "ctx">>, <<"ctx", "b">>}

ParamLists == SeqsUpTo({<<>>}, MaxFields) \cup SeqsUpTo(NamedFields, MaxFields)

ResultLists == {<<>>, <<"error">>, <<"error", "int">>, <<"int", "error">>}

SignaturePackages ==
    {[path |-> PlainPath,
      files |-> <<File(PackageName(PlainPath), <<>>,
                     <<FuncDecl(name, params, results, hasBody, <<>>)>>)>>] :
        name \in {Str("run"), <<"New", "Cache">>, IsParseError},
        params \in ParamLists, results \in ResultLists, hasBody \in BOOLEAN}

InitSignature == InitRun(SignaturePackages)
SpecSignature == InitSignature /\ [][Next]_vars

\* One function whose body holds if statements with and without else, at the
\* top of the body and inside a loop, a block, an if and an else-if chain,
\* and the other statements the callback reports on; in a package with a
\* plain name and in one named util.
ElseBlock == BlockStmt(<<>>)
IfElse == IfStmt(<<>>, TRUE, ElseBlock)

Stmts ==
    {IfStmt(<<>>, FALSE, ElseBlock),
     IfElse,
     ForStmt(<<IfElse>>),
     BlockStmt(<<IfElse>>),
     IfStmt(<<IfElse>>, FALSE, ElseBlock),
     IfStmt(<<>>, TRUE, IfElse),
     ReturnStmt(<<"err">>),
     GoStmt(CallExpr("work", 0)),
     ExprStmt(CallExpr("make", 1)),
     Inner("DeclStmt", <<GenDecl("var", <<ValueSpec(<<Str("Cache")>>)>>)>>)}

BannedPath == Join(<<Str("x"), Str("util")>>)

BodyPackages ==
    {[path |-> P,
      files |-> <<File(PackageName(P), <<>>, <<FuncDecl(Str("run"), <<>>, <<>>, hasBody, body)>>)>>] :
        P \in {PlainPath, BannedPath}, hasBody \in BOOLEAN,
        body \in SeqsUpTo(Stmts, MaxStmts)}

InitBody == InitRun(BodyPackages)
SpecBody == InitBody /\ [][Next]_vars

-----------------------------------------------------------------------------
(* What the claims are stated with.                                        *)

\* How many times the run reported the diagnostics of the set S.
Reported(S) == BagCardinality([d \in S \cap DOMAIN diags |-> diags[d]])

\* The functions the files of the package declare, and where: the top-level
\* declarations, in the order the files and their declarations are written.
FuncSites ==
    {<<i, k>> \in UNION {{i} \X DOMAIN pkg.files[i].kids : i \in DOMAIN pkg.files} :
        pkg.files[i].kids[k].kind = "FuncDecl"}

FuncName(site) == pkg.files[site[1]].kids[site[2]].name

Declared(name) == \E site \in FuncSites : FuncName(site) = name

Before(s, t) == s[1] < t[1] \/ (s[1] = t[1] /\ s[2] <= t[2])

FirstSite(name) ==
    CHOOSE s \in FuncSites :
        FuncName(s) = name /\ \A t \in FuncSites : FuncName(t) = name => Before(s, t)

NumSlashes(p) == Cardinality({i \in DOMAIN p : p[i] = Slash})

\* The k-th separator of p
SlashAt(p, k) ==
    CHOOSE i \in DOMAIN p :
        p[i] = Slash /\ Cardinality({j \in 1..i : p[j] = Slash}) = k

SitePos(site) == Pos(site[1], <<site[2]>>)

\* Every node of file i, by its path in the tree
NodePaths(i) ==
    LET evs == Events(pkg.files[i], <<>>)
    IN  {evs[k].at : k \in {j \in DOMAIN evs : ~evs[j].nil}}

\* The if statements of the package
IfSites ==
    {s \in UNION {{i} \X NodePaths(i) : i \in DOMAIN pkg.files} :
        NodeAt(pkg.files[s[1]], s[2]).kind = "IfStmt"}

KindAt(i, p) == NodeAt(pkg.files[i], p).kind

\* The node at p is an element of the statement list of a function
\* declaration's body ...
InBodyList(i, p) ==
    /\ Len(p) >= 3
    /\ KindAt(i, SubSeq(p, 1, Len(p) - 1)) = "BlockStmt"
    /\ KindAt(i, SubSeq(p, 1, Len(p) - 2)) = "FuncDecl"

\* ... or lies anywhere inside such a body
InsideBody(i, p) ==
    \E n \in 2..(Len(p) - 1) :
        KindAt(i, SubSeq(p, 1, n)) = "BlockStmt" /\ KindAt(i, SubSeq(p, 1, n - 1)) = "FuncDecl"

\* The callback has been called on the node at p of file i and has returned
Handled(i, p) ==
    \/ i < fi
    \/ i = fi /\ \A k \in DOMAIN walk : walk[k].nil \/ walk[k].at # p

SixVerbs == {"Request", "Reply", "Send", "Receive", "Publish", "Subscribe"}

\* A producer verb and the verb that answers it
Families == {<<"Request", "Reply">>, <<"Send", "Receive">>, <<"Publish", "Subscribe">>}

Directions == Families \cup {<<fam[2], fam[1]>> : fam \in Families}

Bases == {Str("User"), Str("Order")}

\* The declarations in file i of a verb-prefixed function with base B
VerbSites(i, B) ==
    {s \in FuncSites : s[1] = i /\ \E v \in SixVerbs : FuncName(s) = Str(v) \o B}

\* The group the layering table is keyed on: the classifier's, of the path
Group(p) == splitPackagePath(p).group

\* The import path a literal denotes
ImportPath(lit) == Unquote(lit).val

Forbidden(g, ig) ==
    \/ g = Str(LibraryGroup) /\ ig \in {Str(InternalGroup), Str(CommandGroup)}
    \/ g = Str(InternalGroup) /\ ig = Str(CommandGroup)
    \/ g \in {Str(ModelGroup), Str(GenGroup)}
       /\ ig \in {Str(CommandGroup), Str(InternalGroup), Str(LibraryGroup)}

MustNotImport ==
    {"must not import from internal package", "must not import from command package",
     "must not import from library package"}

\* The imports of the package: <<file, import>>
ImportSites ==
    UNION {{<<i, imp>> : imp \in Range(Imports(pkg.files[i]))} : i \in DOMAIN pkg.files}

-----------------------------------------------------------------------------
(* C5: splitPackagePath returns, for a path without a separator, the       *)
(* empty group and the whole path as the only part; for a path a/b, group  *)
(* a and the parts [b]; for a path a/b/c/..., group b and the parts        *)
(* [c, ...], which are the text after the second separator cut at its      *)
(* separators.  It returns for every path.                                 *)
C5_SplitCases ==
    pc = "split_done" =>
        LET n == NumSlashes(path)
        IN  /\ n = 0 => ret.group = <<>> /\ ret.parts = <<path>>
            /\ n = 1 => LET i == SlashAt(path, 1)
                        IN  /\ ret.group = SubSeq(path, 1, i - 1)
                            /\ ret.parts = <<SubSeq(path, i + 1, Len(path))>>
            /\ n >= 2 => LET i == SlashAt(path, 1)
                             j == SlashAt(path, 2)
                         IN  /\ ret.group = SubSeq(path, i + 1, j - 1)
                             /\ Len(ret.parts) = n - 1
                             /\ \A k \in DOMAIN ret.parts : NumSlashes(ret.parts[k]) = 0
                             /\ Join(ret.parts) = SubSeq(path, j + 1, Len(path))

\* x/lib/x has been split into group lib and the parts [x]; "" and lib/x too
C5_Witness ==
    /\ pc = "split_done"
    /\ path = <<"x", Slash, "lib", Slash, "x">>
    /\ ret = [group |-> Str("lib"), parts |-> <<Str("x")>>]

-----------------------------------------------------------------------------
(* C2: once the error registries are reconciled, every recorded error      *)
(* struct E has exactly one "missing Is<E> function" report, at E's        *)
(* position, when no file of the package declares a function Is<E>, and    *)
(* none otherwise; every declared checker C has exactly one "missing       *)
(* <C without Is> struct" report, at C's first declaration, when that      *)
(* struct was not recorded, and none otherwise.                            *)
C2_ErrorContract ==
    pc \in {"pairs", "done"} =>
        /\ \A e \in DOMAIN errorStructMap :
              LET reports == {d \in DOMAIN diags :
                                 d.fmt = MissingFunction /\ d.args = <<Str("Is") \o e>>}
                  atE  == {d \in reports : d.pos = errorStructMap[e]}
                  want == IF Declared(Str("Is") \o e) THEN 0 ELSE 1
              IN  Reported(reports) = want /\ Reported(atE) = want
        /\ \A site \in FuncSites :
              LET c == FuncName(site)
                  e == SubSeq(c, 2, Len(c))
                  reports == {d \in DOMAIN diags : d.fmt = MissingStruct /\ d.args = <<e>>}
                  atC  == {d \in reports : d.pos = SitePos(FirstSite(c))}
                  want == IF e \in DOMAIN errorStructMap THEN 0 ELSE 1
              IN  IsErrorChecker(c) => Reported(reports) = want /\ Reported(atC) = want

\* ParseError has no checker and IsCacheError no struct: one report each
C2_Witness ==
    /\ pc = "done"
    /\ ParseError \in DOMAIN errorStructMap
    /\ ~Declared(IsParseError)
    /\ Declared(IsCacheError)
    /\ CacheError \notin DOMAIN errorStructMap
    /\ Reported({d \in DOMAIN diags : d.fmt = MissingFunction}) = 1
    /\ Reported({d \in DOMAIN diags : d.fmt = MissingStruct}) = 1

-----------------------------------------------------------------------------
(* C1, as claimed: pairs are kept per file.  When the run has returned,    *)
(* a file whose only verb-prefixed function with base B is Request+B       *)
(* (Send+B, Publish+B) has exactly one "missing Reply (Receive, Subscribe) *)
(* function" report at that function, whatever the other files declare;    *)
(* a file that declares exactly the two functions of a family has no       *)
(* report at either.  Only packages where no function of another family    *)
(* shares the base B are looked at.  The code keys the pairs on the        *)
(* package clause, which every file of the package shares.                 *)
C1_PerFilePairs ==
    pc = "done" =>
        \A i \in DOMAIN pkg.files : \A B \in Bases : \A fam \in Families :
            LET sites == VerbSites(i, B)
                names == {FuncName(s) : s \in sites}
                own   == {Str(fam[1]) \o B, Str(fam[2]) \o B}
                other == \E j \in DOMAIN pkg.files : \E s \in VerbSites(j, B) : FuncName(s) \notin own
            IN  /\ (Cardinality(sites) = 1 /\ names = {Str(fam[1]) \o B} /\ ~other) =>
                      \A s \in sites :
                          Reported({d \in DOMAIN diags : /\ d.pos = SitePos(s)
                                                 /\ d.fmt = MissingFunction
                                                 /\ d.args = <<Str(fam[2])>>}) = 1
                /\ (Cardinality(sites) = 2 /\ names = {Str(fam[1]) \o B, Str(fam[2]) \o B}) =>
                      \A s \in sites :
                          Reported({d \in DOMAIN diags : d.pos = SitePos(s) /\ d.fmt = MissingFunction}) = 0

-----------------------------------------------------------------------------
(* C9, as claimed: when the run has returned, a declared function v+B      *)
(* whose opposite o+B (Request/Reply, Send/Receive, Publish/Subscribe) is  *)
(* declared nowhere in the package has a "missing o function" report,      *)
(* whatever else shares the base B.  The code keeps one first and one      *)
(* second half per base, whatever the family.                              *)
C9_OwnFamilyOnly ==
    pc = "done" =>
        \A B \in Bases : \A dir \in Directions :
            (Declared(Str(dir[1]) \o B) /\ ~Declared(Str(dir[2]) \o B)) =>
                Reported({d \in DOMAIN diags : /\ d.fmt = MissingFunction
                                       /\ d.args = <<Str(dir[2])>>
                                       /\ \E s \in FuncSites : /\ FuncName(s) = Str(dir[1]) \o B
                                                               /\ d.pos = SitePos(s)}) >= 1

-----------------------------------------------------------------------------
(* C10: no pair half is ever stored under a verb other than Request, Send, *)
(* Publish (first) and Reply, Receive, Subscribe (second), and every       *)
(* "missing ... function" report names one of these six verbs or, from the *)
(* error registry, a checker Is...Error: never Set, Get or unknown.        *)
C10_NoSetGet ==
    /\ \A k \in DOMAIN a2b :
          /\ \A j \in DOMAIN a2b[k].First : a2b[k].First[j].Name \in {"Request", "Send", "Publish"}
          /\ \A j \in DOMAIN a2b[k].Second : a2b[k].Second[j].Name \in {"Reply", "Receive", "Subscribe"}
    /\ \A d \in DOMAIN diags :
          d.fmt = MissingFunction =>
              \/ d.args \in {<<Str(v)>> : v \in SixVerbs}
              \/ IsErrorChecker(d.args[1])

\* SetUser and SendOrder are declared alone: the run has returned with the
\* one report "missing Receive function" and none for SetUser
C10_Witness ==
    /\ pc = "done"
    /\ Declared(<<"Set", "User">>)
    /\ Declared(<<"Send", "Order">>)
    /\ Reported({d \in DOMAIN diags : TRUE}) = 1
    /\ Reported({d \in DOMAIN diags : d.fmt = MissingFunction /\ d.args = <<Str("Receive")>>}) = 1

-----------------------------------------------------------------------------
(* C3, as claimed: when the run has returned, an import of group internal  *)
(* in a file of group lib has exactly one "must not import from internal   *)
(* package" report, and an import of the file's own group and depth has    *)
(* exactly one "same group, same depth" report.  The code reports them in  *)
(* every call of the callback, once per node of the file and once more per *)
(* node for the nil that ends its children.                                *)
C3_OncePerImport ==
    pc = "done" =>
        \A site \in ImportSites :
            LET i   == site[1]
                imp == site[2]
                own == splitPackagePath(pkg.path)
                sp  == splitPackagePath(ImportPath(imp.value))
            IN  /\ (own.group = Str(LibraryGroup) /\ sp.group = Str(InternalGroup)) =>
                      Reported({d \in DOMAIN diags : /\ d.pos = Pos(i, imp.at)
                                             /\ d.fmt = "must not import from internal package"}) = 1
                /\ (own.group = sp.group /\ Len(own.parts) = Len(sp.parts)) =>
                      Reported({d \in DOMAIN diags : d.pos = Pos(i, imp.at) /\ d.fmt = SameDepthMessage}) = 1

-----------------------------------------------------------------------------
(* C4, as claimed: when the run has returned, an import has a "must not    *)
(* import from ... package" report exactly when the group of the file's    *)
(* package path and the group of the import path are a forbidden pair of   *)
(* the table.  The code classifies the import literal with its quotes, so  *)
(* the group of a two-segment import starts with a quote and matches none. *)
C4_LegalityTable ==
    pc = "done" =>
        \A site \in ImportSites :
            (Reported({d \in DOMAIN diags : /\ d.pos = Pos(site[1], site[2].at)
                                    /\ d.fmt \in MustNotImport}) >= 1)
            <=> Forbidden(Group(pkg.path), Group(ImportPath(site[2].value)))

-----------------------------------------------------------------------------
(* C8, as claimed: when the run has returned, a function declaration has   *)
(* the "context.Context should be the first parameter" report exactly when *)
(* one of its parameters is named ctx and its first parameter is not.  The *)
(* code reads only the first name of each field.                           *)
C8_CtxFirst ==
    pc = "done" =>
        \A s \in FuncSites :
            LET params == pkg.files[s[1]].kids[s[2]].params
                names  == Flatten(params)
            IN  (Reported({d \in DOMAIN diags : /\ d.pos = SitePos(s)
                                        /\ d.fmt = "context.Context should be the first parameter"}) >= 1)
                <=> ((\E k \in DOMAIN names : names[k] = "ctx") /\ names[1] # "ctx")

-----------------------------------------------------------------------------
(* C7, as claimed: no run aborts.  The callback panics on the nil that     *)
(* ends a node's children when the package's last path segment is util,    *)
(* and on a function declaration without a body.                           *)
C7_NeverAborts == pc # "panic"

-----------------------------------------------------------------------------
(* C6, as claimed: when the run has returned, every if statement inside a  *)
(* function declaration's body, at any depth, has the no-else report when  *)
(* it has an else branch and none when it has not.                         *)
C6_AnyDepth ==
    pc = "done" =>
        \A s \in IfSites :
            InsideBody(s[1], s[2]) =>
                LET n == Reported({d \in DOMAIN diags : d.pos = Pos(s[1], s[2]) /\ d.fmt = ElseMessage})
                IN  IF NodeAt(pkg.files[s[1]], s[2]).flag THEN n >= 1 ELSE n = 0

(* C6, amended: at every moment of a run, an if statement has the no-else  *)
(* report, once, exactly when it has an else branch, it is an element of   *)
(* the statement list of a function declaration's body, and the callback   *)
(* has handled that declaration; an if statement nested deeper, or without *)
(* an else branch, has none.                                               *)
C6_TopLevelOnly ==
    \A s \in IfSites :
        LET i == s[1]
            p == s[2]
            n == Reported({d \in DOMAIN diags : d.pos = Pos(i, p) /\ d.fmt = ElseMessage})
        IN  n = IF /\ NodeAt(pkg.files[i], p).flag
                   /\ InBodyList(i, p)
                   /\ Handled(i, SubSeq(p, 1, Len(p) - 2))
                THEN 1 ELSE 0

\* The body is [if-else, for { if-else }]: the run has returned with one
\* no-else report, at the first statement
C6_Witness ==
    /\ pc = "done"
    /\ LET body == pkg.files[1].kids[2].kids[3].kids
       IN  body = <<IfElse, ForStmt(<<IfElse>>)>>
    /\ Reported({d \in DOMAIN diags : d.fmt = ElseMessage}) = 1
    /\ Reported({d \in DOMAIN diags : d.fmt = ElseMessage /\ d.pos = Pos(1, <<2, 3, 1>>)}) = 1

====
